---- MODULE Spec2Model ----
(***************************************************************************)
(* Model of roboticstoolbox/robot/DHLink.py: a Denavit-Hartenberg link,    *)
(* its validated setters, its constructors, the link transform A(q) and    *)
(* the composition operator __add__.                                       *)
(*                                                                         *)
(* Numbers.  The DH scalars d, alpha, theta, a, offset and the joint       *)
(* coordinate q are integers.  An angle n stands for n quarter turns       *)
(* (n * pi/2), the grid on which _sin and _cos are exact (the values the   *)
(* symbolic branch of _sin/_cos returns); a distance n stands for n units. *)
(*                                                                         *)
(* Python values.  sigma is stored verbatim and mdh goes through int(), so *)
(* their inputs are Python values: [t |-> "int", v |-> n],                 *)
(* [t |-> "bool", v |-> 0 or 1] and [t |-> "none", v |-> 0] (None).        *)
(***************************************************************************)
EXTENDS Integers, Sequences, FiniteSets, TLC

VARIABLES link, alive, op, err, T, robot, other

vars == <<link, alive, op, err, T, robot, other>>

----------------------------------------------------------------------------
(* Bounds of the model                                                     *)

\* d, a, theta and offset range over 0..MaxVal
MaxVal == 1
\* alpha ranges over 0..MaxTurn quarter turns (4 = one full turn)
MaxTurn == 4
\* q ranges over -MaxQ..MaxQ
MaxQ == 2
\* integer values offered to sigma and mdh range over 0..MaxInt
MaxInt == 2
\* a DHRobot operand of __add__ has at most MaxLinks links
MaxLinks == 2

Vals == 0..MaxVal
Turns == 0..MaxTurn
Qs == (0 - MaxQ)..MaxQ

----------------------------------------------------------------------------
(* Python values and the operations the code applies to them               *)

PyInt(n) == [t |-> "int", v |-> n]
PyBool(b) == [t |-> "bool", v |-> IF b THEN 1 ELSE 0]
PyNone == [t |-> "none", v |-> 0]

PyVals == {PyInt(n) : n \in 0..MaxInt} \cup {PyBool(FALSE), PyBool(TRUE), PyNone}

\* bool(x): the truth value `if x` / `not x` / `x and ...` test
Truthy(x) == x.t /= "none" /\ x.v /= 0

\* x == 0 as Python evaluates it: None == 0 is False, False == 0 is True
EqZero(x) == x.t /= "none" /\ x.v = 0

\* int(x): defined on int and bool, a TypeError on None
IntOk(x) == x.t /= "none"
IntOf(x) == x.v

----------------------------------------------------------------------------
(* _sin, _cos on the quarter-turn grid                                     *)

_sin(x) == CASE x % 4 = 0 -> 0
             [] x % 4 = 1 -> 1
             [] x % 4 = 2 -> 0
             [] x % 4 = 3 -> 0 - 1

_cos(x) == CASE x % 4 = 0 -> 1
             [] x % 4 = 1 -> 0
             [] x % 4 = 2 -> 0 - 1
             [] x % 4 = 3 -> 0

----------------------------------------------------------------------------
(* The object                                                              *)

\* Link.__init__(**kwargs): the base class keeps offset and flip; the
\* kinematic attributes do not exist yet (sigma is the first one written).
Link_init(offset, flip) ==
    [d |-> 0, alpha |-> 0, theta |-> 0, a |-> 0, sigma |-> PyInt(0),
     mdh |-> 0, offset |-> offset, flip |-> flip]

\* a call's outcome: the object after the call and the exception raised
Ok(self) == [self |-> self, err |-> "ok"]
Raise(self, e) == [self |-> self, err |-> e]

\* isrevolute written with the comparison A uses (sigma == 0)
isrevolute_eq0(self) == IF EqZero(self.sigma) THEN TRUE ELSE FALSE

isrevolute(self) == IF ~Truthy(self.sigma) THEN TRUE ELSE FALSE

isprismatic(self) == IF Truthy(self.sigma) THEN TRUE ELSE FALSE

\* the d check written as sigma == 1 instead of the truth value of sigma
d_setter_eq1(self, d_new) ==
    IF (self.sigma.t /= "none" /\ self.sigma.v = 1) /\ d_new /= 0
    THEN Raise(self, "ValueError")
    ELSE Ok([self EXCEPT !.d = d_new])

d_setter(self, d_new) ==
    IF Truthy(self.sigma) /\ d_new /= 0
    THEN Raise(self, "ValueError")
    ELSE Ok([self EXCEPT !.d = d_new])

alpha_setter(self, alpha_new) == Ok([self EXCEPT !.alpha = alpha_new])

\* the theta setter storing the value before it validates it
theta_setter_writeFirst(self, theta_new) ==
    IF ~Truthy(self.sigma) /\ theta_new /= 0
    THEN Raise([self EXCEPT !.theta = theta_new], "ValueError")
    ELSE Ok([self EXCEPT !.theta = theta_new])

theta_setter(self, theta_new) ==
    IF ~Truthy(self.sigma) /\ theta_new /= 0
    THEN Raise(self, "ValueError")
    ELSE Ok([self EXCEPT !.theta = theta_new])

a_setter(self, a_new) == Ok([self EXCEPT !.a = a_new])

sigma_setter(self, sigma_new) == Ok([self EXCEPT !.sigma = sigma_new])

mdh_setter(self, mdh_new) ==
    IF IntOk(mdh_new)
    THEN Ok([self EXCEPT !.mdh = IntOf(mdh_new)])
    ELSE Raise(self, "TypeError")

\* DHLink.__init__: the six assignments in the order of the source; an
\* exception raised by one of them skips the assignments after it
DHLink_init(d, alpha, theta, a, sigma, mdh, offset, flip) ==
    LET s0 == Ok(Link_init(offset, flip))
        s1 == IF s0.err = "ok" THEN sigma_setter(s0.self, sigma) ELSE s0
        s2 == IF s1.err = "ok" THEN theta_setter(s1.self, theta) ELSE s1
        s3 == IF s2.err = "ok" THEN d_setter(s2.self, d) ELSE s2
        s4 == IF s3.err = "ok" THEN alpha_setter(s3.self, alpha) ELSE s3
        s5 == IF s4.err = "ok" THEN a_setter(s4.self, a) ELSE s4
    IN  IF s5.err = "ok" THEN mdh_setter(s5.self, mdh) ELSE s5

----------------------------------------------------------------------------
(* The link transform                                                      *)

\* the adjustment with the flip branch left out
Adjust_noFlip(self, q) == q + self.offset

\* the joint coordinate after flip and offset
Adjust(self, q) == IF self.flip THEN (0 - q) + self.offset ELSE q + self.offset

\* the branch on the joint type: the trigonometric pair and the distance
Resolve(self, q) ==
    IF EqZero(self.sigma)
    THEN [st |-> _sin(q), ct |-> _cos(q), d |-> self.d]
    ELSE [st |-> _sin(self.theta), ct |-> _cos(self.theta), d |-> q]

StandardDH(st, ct, sa, ca, a, d) ==
    << <<ct, (0 - st) * ca, st * sa, a * ct>>,
       <<st, ct * ca, (0 - ct) * sa, a * st>>,
       <<0, sa, ca, d>>,
       <<0, 0, 0, 1>> >>

ModifiedDH(st, ct, sa, ca, a, d) ==
    << <<ct, 0 - st, 0, a>>,
       <<st * ca, ct * ca, 0 - sa, (0 - sa) * d>>,
       <<st * sa, ct * sa, ca, ca * d>>,
       <<0, 0, 0, 1>> >>

\* the transform with the branch on the convention left out
A_alwaysStandard(self, q) ==
    LET sa == _sin(self.alpha)
        ca == _cos(self.alpha)
        r == Resolve(self, Adjust(self, q))
    IN  StandardDH(r.st, r.ct, sa, ca, self.a, r.d)

A(self, q) ==
    LET sa == _sin(self.alpha)
        ca == _cos(self.alpha)
        r == Resolve(self, Adjust(self, q))
    IN  IF self.mdh = 0
        THEN StandardDH(r.st, r.ct, sa, ca, self.a, r.d)
        ELSE ModifiedDH(r.st, r.ct, sa, ca, self.a, r.d)

----------------------------------------------------------------------------
(* The four named constructors                                             *)

\* **kwargs of a call: at most one extra keyword, key "" when there is none
NoKw == [key |-> "", val |-> PyNone]

\* the keywords every named constructor passes explicitly to DHLink.__init__
Explicit == {"d", "alpha", "theta", "a", "sigma", "mdh", "offset", "qlim", "flip"}

\* super().__init__(d=d, ..., **kwargs): a keyword given twice is a TypeError
\* raised by the call itself, before the body of DHLink.__init__ runs
SuperInit(d, alpha, theta, a, sigma, mdh, offset, flip, kwargs) ==
    IF kwargs.key \in Explicit
    THEN Raise(Link_init(offset, flip), "TypeError")
    ELSE DHLink_init(d, alpha, theta, a, sigma, mdh, offset, flip)

RevoluteDH(d, a, alpha, offset, flip, kwargs) ==
    LET theta == 0
        sigma == PyInt(0)
        mdh == PyBool(FALSE)
    IN  SuperInit(d, alpha, theta, a, sigma, mdh, offset, flip, kwargs)

PrismaticDH(theta, a, alpha, offset, flip, kwargs) ==
    LET d == 0
        sigma == PyInt(1)
        mdh == PyBool(FALSE)
    IN  SuperInit(d, alpha, theta, a, sigma, mdh, offset, flip, kwargs)

RevoluteMDH(d, a, alpha, offset, flip, kwargs) ==
    LET theta == 0
        sigma == PyInt(0)
        mdh == PyBool(TRUE)
    IN  SuperInit(d, alpha, theta, a, sigma, mdh, offset, flip, kwargs)

\* a constructor that lets **kwargs override the values it fixes
PrismaticMDH_override(theta, a, alpha, offset, flip, kwargs) ==
    LET d == IF kwargs.key = "d" THEN kwargs.val.v ELSE 0
        sigma == IF kwargs.key = "sigma" THEN kwargs.val ELSE PyInt(1)
        mdh == IF kwargs.key = "mdh" THEN kwargs.val ELSE PyBool(TRUE)
    IN  DHLink_init(d, alpha, theta, a, sigma, mdh, offset, flip)

PrismaticMDH(theta, a, alpha, offset, flip, kwargs) ==
    LET d == 0
        sigma == PyInt(1)
        mdh == PyBool(TRUE)
    IN  SuperInit(d, alpha, theta, a, sigma, mdh, offset, flip, kwargs)

----------------------------------------------------------------------------
(* Composition: link + other                                               *)

\* rp.DHRobot(links, name=, manufacturer=, base=, tool=, gravity=)
DHRobot(links, name, manufacturer, base, tool, gravity) ==
    [kind |-> "DHRobot", links |-> links, name |-> name,
     manufacturer |-> manufacturer, base |-> base, tool |-> tool,
     gravity |-> gravity]

\* DHRobot.n: the number of links
RobotN(L) == Len(L.links)

\* for i in range(L.n): nlinks.append(L.links[i])   (i counts from 1 here)
RECURSIVE CopyLinks(_, _, _)
CopyLinks(nlinks, L, i) ==
    IF i > RobotN(L) THEN nlinks
    ELSE CopyLinks(Append(nlinks, L.links[i]), L, i + 1)

\* the composition with self appended after the links of a robot operand
__add__selfLast(self, L) ==
    IF L.kind = "DHLink"
    THEN [ret |-> DHRobot(<<self, L.self>>, "default", "default", "default",
                          "default", "default"),
          err |-> "ok", self |-> self, L |-> L]
    ELSE IF L.kind = "DHRobot"
    THEN [ret |-> DHRobot(Append(L.links, self), L.name, L.manufacturer,
                          L.base, L.tool, L.gravity),
          err |-> "ok", self |-> self, L |-> L]
    ELSE [ret |-> [kind |-> "none"], err |-> "TypeError", self |-> self, L |-> L]

\* the outcome of self + L: the value returned, the exception raised, and
\* both operands as the call leaves them
__add__(self, L) ==
    IF L.kind = "DHLink"
    THEN [ret |-> DHRobot(<<self, L.self>>, "default", "default", "default",
                          "default", "default"),
          err |-> "ok", self |-> self, L |-> L]
    ELSE IF L.kind = "DHRobot"
    THEN [ret |-> DHRobot(CopyLinks(<<self>>, L, 1), L.name, L.manufacturer,
                          L.base, L.tool, L.gravity),
          err |-> "ok", self |-> self, L |-> L]
    ELSE [ret |-> [kind |-> "none"], err |-> "TypeError", self |-> self, L |-> L]

----------------------------------------------------------------------------
NoOp == [name |-> "none"]
NoT == <<>>
NoRobot == [kind |-> "none"]
NoOther == [kind |-> "none"]

Init ==
    /\ link = Link_init(0, FALSE)
    /\ alive = FALSE
    /\ op = NoOp
    /\ err = "ok"
    /\ T = NoT
    /\ robot = NoRobot
    /\ other = NoOther

\* a constructor call returns the new object, or raises and returns nothing
Constructed(r, o) ==
    /\ link' = IF r.err = "ok" THEN r.self ELSE link
    /\ alive' = (r.err = "ok")
    /\ op' = o
    /\ err' = r.err
    /\ T' = NoT
    /\ robot' = NoRobot
    /\ other' = NoOther

NewDHLink ==
    /\ ~alive
    /\ \E d \in Vals, alpha \in Turns, theta \in Vals, a \in Vals,
          sigma \in PyVals, mdh \in PyVals, offset \in Vals, flip \in BOOLEAN :
          Constructed(DHLink_init(d, alpha, theta, a, sigma, mdh, offset, flip),
                      [name |-> "DHLink", d |-> d, theta |-> theta,
                       sigma |-> sigma])

\* an assignment link.x = v on the existing object
Assigned(r, o) ==
    /\ link' = r.self
    /\ op' = o
    /\ err' = r.err
    /\ T' = NoT
    /\ robot' = NoRobot
    /\ other' = NoOther
    /\ UNCHANGED alive

SetD ==
    /\ alive
    /\ \E v \in Vals : Assigned(d_setter(link, v), [name |-> "set_d", x |-> v])

SetAlpha ==
    /\ alive
    /\ \E v \in Turns : Assigned(alpha_setter(link, v), [name |-> "set_alpha", x |-> v])

SetTheta ==
    /\ alive
    /\ \E v \in Vals : Assigned(theta_setter(link, v), [name |-> "set_theta", x |-> v])

SetA ==
    /\ alive
    /\ \E v \in Vals : Assigned(a_setter(link, v), [name |-> "set_a", x |-> v])

SetSigma ==
    /\ alive
    /\ \E v \in PyVals : Assigned(sigma_setter(link, v), [name |-> "set_sigma", x |-> v])

SetMdh ==
    /\ alive
    /\ \E v \in PyVals : Assigned(mdh_setter(link, v), [name |-> "set_mdh", x |-> v])

\* T = link.A(q): a pure query
EvalA ==
    /\ alive
    /\ \E q \in Qs :
          /\ T' = A(link, q)
          /\ op' = [name |-> "A", q |-> q]
    /\ err' = "ok"
    /\ robot' = NoRobot
    /\ other' = NoOther
    /\ UNCHANGED <<link, alive>>

\* the extra keywords offered to a named constructor whose signature has no
\* parameter `fixed`: none, a dynamics keyword, or one of the fixed fields
KwArgs(fixed) ==
    {NoKw, [key |-> "m", val |-> PyInt(1)]}
    \cup {[key |-> fixed, val |-> PyInt(n)] : n \in Vals}
    \cup {[key |-> k, val |-> v] : k \in {"sigma", "mdh"}, v \in PyVals}

NewRevoluteDH ==
    /\ ~alive
    /\ \E d \in Vals, a \in Vals, alpha \in Turns, offset \in Vals,
          flip \in BOOLEAN, kwargs \in KwArgs("theta") :
          Constructed(RevoluteDH(d, a, alpha, offset, flip, kwargs),
                      [name |-> "RevoluteDH", kw |-> kwargs])

NewPrismaticDH ==
    /\ ~alive
    /\ \E theta \in Vals, a \in Vals, alpha \in Turns, offset \in Vals,
          flip \in BOOLEAN, kwargs \in KwArgs("d") :
          Constructed(PrismaticDH(theta, a, alpha, offset, flip, kwargs),
                      [name |-> "PrismaticDH", kw |-> kwargs])

NewRevoluteMDH ==
    /\ ~alive
    /\ \E d \in Vals, a \in Vals, alpha \in Turns, offset \in Vals,
          flip \in BOOLEAN, kwargs \in KwArgs("theta") :
          Constructed(RevoluteMDH(d, a, alpha, offset, flip, kwargs),
                      [name |-> "RevoluteMDH", kw |-> kwargs])

NewPrismaticMDH ==
    /\ ~alive
    /\ \E theta \in Vals, a \in Vals, alpha \in Turns, offset \in Vals,
          flip \in BOOLEAN, kwargs \in KwArgs("d") :
          Constructed(PrismaticMDH(theta, a, alpha, offset, flip, kwargs),
                      [name |-> "PrismaticMDH", kw |-> kwargs])

\* the right operands offered to link + other
OperandLinks ==
    {[kind |-> "DHLink", self |-> RevoluteDH(1, 0, 1, 0, FALSE, NoKw).self],
     [kind |-> "DHLink", self |-> PrismaticMDH(0, 1, 0, 1, TRUE, NoKw).self]}

LinkSeqs == UNION {[1..n -> {o.self : o \in OperandLinks}] : n \in 0..MaxLinks}

OperandRobots ==
    {DHRobot(ls, "puma", "unimation", "base1", "tool1", "g1") : ls \in LinkSeqs}

OperandOthers == {[kind |-> "int", v |-> 5], [kind |-> "NoneType", v |-> 0]}

\* robot = link + L
Add ==
    /\ alive
    /\ \E L \in OperandLinks \cup OperandRobots \cup OperandOthers :
          LET r == __add__(link, L)
          IN  /\ link' = r.self
              /\ other' = r.L
              /\ robot' = r.ret
              /\ err' = r.err
              /\ op' = [name |-> "add", L |-> L]
    /\ T' = NoT
    /\ UNCHANGED alive

New ==
    \/ NewDHLink
    \/ NewRevoluteDH
    \/ NewPrismaticDH
    \/ NewRevoluteMDH
    \/ NewPrismaticMDH

\* construction, mutation and evaluation of one link
Next ==
    \/ New
    \/ SetD
    \/ SetAlpha
    \/ SetTheta
    \/ SetA
    \/ SetSigma
    \/ SetMdh
    \/ EvalA

Spec == Init /\ [][Next]_vars

\* construction of one link and its composition with other operands
NextAdd ==
    \/ New
    \/ Add

SpecAdd == Init /\ [][NextAdd]_vars

----------------------------------------------------------------------------
(* Properties                                                              *)

\* C1: in every reachable state of a constructed link, a prismatic link has
\* d = 0 and a revolute link has theta = 0 (every mutation, the one of sigma
\* included, is validated like construction).
C1_InvariantTable ==
    alive => /\ (isprismatic(link) => link.d = 0)
             /\ (isrevolute(link) => link.theta = 0)

\* C2: an assignment to d is rejected with ValueError exactly when the link
\* is prismatic (sigma truthy) and the value is nonzero, an assignment to
\* theta exactly when the link is revolute and the value is nonzero, at
\* construction and by later mutation; every other assignment succeeds and
\* stores the value.
C2_RejectExactly ==
    /\ op.name = "set_d" =>
          /\ (err = "ValueError") <=> (Truthy(link.sigma) /\ op.x /= 0)
          /\ err /= "ValueError" => (err = "ok" /\ link.d = op.x)
    /\ op.name = "set_theta" =>
          /\ (err = "ValueError") <=> (~Truthy(link.sigma) /\ op.x /= 0)
          /\ err /= "ValueError" => (err = "ok" /\ link.theta = op.x)
    /\ op.name = "DHLink" =>
          /\ (err = "ValueError") <=>
                \/ (Truthy(op.sigma) /\ op.d /= 0)
                \/ (~Truthy(op.sigma) /\ op.theta /= 0)
          /\ err = "ok" => (link.d = op.d /\ link.theta = op.theta)

C2_Witness == op.name = "set_d" /\ op.x /= 0 /\ err = "ValueError"

\* C3: a rejected assignment to d or theta leaves every stored field of the
\* link as it was before the assignment.
C3_NoPartialWrite ==
    [][(op'.name \in {"set_d", "set_theta"} /\ err' = "ValueError")
          => link' = link]_vars

C3_Witness == op.name = "set_theta" /\ op.x /= 0 /\ err = "ValueError"

\* The transform of section 4.2 of the specification, with the joint type
\* taken from isrevolute()/isprismatic() and the convention from mdh.
SpecTransform(self, q) ==
    LET qq == IF self.flip THEN (0 - q) + self.offset ELSE q + self.offset
        sa == _sin(self.alpha)
        ca == _cos(self.alpha)
        st == IF isrevolute(self) THEN _sin(qq) ELSE _sin(self.theta)
        ct == IF isrevolute(self) THEN _cos(qq) ELSE _cos(self.theta)
        dd == IF isrevolute(self) THEN self.d ELSE qq
    IN  IF self.mdh = 0
        THEN << <<ct, (0 - st) * ca, st * sa, self.a * ct>>,
                <<st, ct * ca, (0 - ct) * sa, self.a * st>>,
                <<0, sa, ca, dd>>,
                <<0, 0, 0, 1>> >>
        ELSE << <<ct, 0 - st, 0, self.a>>,
                <<st * ca, ct * ca, 0 - sa, (0 - sa) * dd>>,
                <<st * sa, ct * sa, ca, ca * dd>>,
                <<0, 0, 0, 1>> >>

\* C4: for every link and every q, A(q) is the matrix of section 4.2: a
\* revolute link takes (st, ct) from q' and the distance from the stored d,
\* a prismatic link takes (st, ct) from the stored theta and the distance
\* from q', laid out by the table of the link's convention.
C4_MatchesSpecTable == op.name = "A" => T = SpecTransform(link, op.q)

\* C5: A(q) on a link with flip = true and offset = 0 equals A(-q) on the
\* same link with flip = false and offset = 0.
C5_FlipIsNegation ==
    (op.name = "A" /\ link.flip /\ link.offset = 0)
        => T = A([link EXCEPT !.flip = FALSE], 0 - op.q)

C5_Witness ==
    /\ op.name = "A" /\ link.flip /\ link.offset = 0 /\ op.q /= 0
    /\ T /= A([link EXCEPT !.flip = FALSE], op.q)

\* the same link under the other convention
OtherConvention(self) == [self EXCEPT !.mdh = IF self.mdh = 0 THEN 1 ELSE 0]

\* C6 as stated: two links that differ only in the convention, evaluated at
\* the same q, give different matrices whenever alpha /= 0 and at least one
\* of d, a is nonzero.
C6_Original ==
    (op.name = "A" /\ link.alpha /= 0 /\ (link.d /= 0 \/ link.a /= 0))
        => T /= A(OtherConvention(link), op.q)

\* C6 amended: the two matrices differ whenever alpha is not a whole number
\* of full turns and either the distance entry of the matrix (the stored d
\* on the revolute branch, q' on the prismatic branch) is nonzero, or a is
\* nonzero and the joint angle of the matrix (q' on the revolute branch, the
\* stored theta on the prismatic branch) is not a whole number of full turns.
C6_Amended ==
    LET r == Resolve(link, Adjust(link, op.q))
    IN  (/\ op.name = "A"
         /\ (_sin(link.alpha) /= 0 \/ _cos(link.alpha) /= 1)
         /\ \/ r.d /= 0
            \/ (link.a /= 0 /\ (r.st /= 0 \/ r.ct /= 1)))
        => T /= A(OtherConvention(link), op.q)

C6_Witness ==
    LET r == Resolve(link, Adjust(link, op.q))
    IN  /\ op.name = "A"
        /\ link.alpha = 1 /\ link.a /= 0 /\ r.d = 0 /\ r.st /= 0
        /\ T /= A(OtherConvention(link), op.q)

C9_ConventionIsBit == alive => link.mdh \in {0, 1}

\* C10: for every link and every value stored in sigma, exactly one of
\* isrevolute() and isprismatic() returns true.
C10_ExactlyOne == alive => (isrevolute(link) /= isprismatic(link))

C10_Witness == alive /\ link.sigma = PyNone /\ isrevolute(link)

\* A(q) takes the revolute branch for this link: the distance it resolves is
\* the stored d (asked at a coordinate that differs from d)
TakesRevoluteBranch(self) == Resolve(self, self.d + 1).d = self.d

\* the d setter applies the prismatic check to this link: a nonzero d is rejected
AppliesPrismaticCheck(self) == d_setter(self, 1).err = "ValueError"

\* the theta setter applies the revolute check to this link: a nonzero theta
\* is rejected
AppliesRevoluteCheck(self) == theta_setter(self, 1).err = "ValueError"

\* C11: for every value the sigma setter can store, every place that
\* dispatches on the joint type agrees: A(q) takes the revolute branch exactly
\* when isrevolute() is true, the d setter applies the prismatic check exactly
\* when isprismatic() is true, and the theta setter applies the revolute check
\* exactly when isrevolute() is true.
C11_DispatchAgrees ==
    alive => /\ TakesRevoluteBranch(link) <=> isrevolute(link)
             /\ AppliesPrismaticCheck(link) <=> isprismatic(link)
             /\ AppliesRevoluteCheck(link) <=> isrevolute(link)

====
